---- MODULE Spec2Model ----
(***************************************************************************)
(* Trip signups of mitoc-trips (ws/views.py): self-service signup,         *)
(* the administrator's batch edit of a trip's signups                      *)
(* (AdminTripSignupsView), and the lottery-preference post that re-ranks   *)
(* and withdraws a participant's own signups; the overflow preview         *)
(* (CheckTripOverflowView), lottery pairing (LotteryPairingView) and the   *)
(* itinerary form and medical page (TripItineraryView, TripMedicalView).   *)
(*                                                                         *)
(* The database is modelled as the set of SignUp rows plus the per-trip    *)
(* columns of Trip.  `resp` is the response of the request handled by the  *)
(* last step, together with the request it answered.                       *)
(***************************************************************************)
EXTENDS Integers, Sequences, FiniteSets, TLC

\* ---- bounds of the model ------------------------------------------------
MaxPk == 2          \* SignUp primary keys ever allocated
MaxCap == 2         \* largest maximum_participants posted
MaxBatch == 2       \* longest list of signups in one admin post
MaxPending == 2     \* signup forms validated but not yet saved
MaxRev == 1         \* largest revision a client claims to have seen
MaxLog == 2         \* admin posts followed by the revision log
MaxPosted == 1      \* longest list of signups in one lottery-preference post
MaxRank == 1        \* largest order posted with the lottery preferences
MaxRows == 3        \* SignUp primary keys allocated where capacities are previewed
MaxSeats == 3       \* largest capacity posted or previewed there
MaxDay == 12        \* the last day the clock is followed to
MaxItinerary == 2   \* distinct itineraries submitted
MaxMembers == 2     \* rows of the gear database's people

Pars == {"p1", "p2"}
Trips == {1, 2}
Edited == {1}       \* the trip the requests of Spec are for
Members == Pars \cup {"p3"}

NoOrder == -1       \* SignUp.order IS NULL
KeyMissing == -1    \* the posted dict has no 'id' key
NoId == 0           \* the posted dict has "id": null
NoPar == "nobody"   \* paired_with IS NULL
NoInfo == "noinfo"  \* the participant has no LotteryInfo row
NoItinerary == 0    \* Trip.info IS NULL
NoDate == -1        \* no expiration date: None
NoEmail == ""       \* no email: None

VARIABLES
    signups,                \* the rows of ws_signup
    maximum_participants,   \* Trip.maximum_participants, per trip
    signups_open,           \* Trip.signups_open, per trip
    edit_revision,          \* Trip.edit_revision, per trip
    next_pk,                \* the next primary key of ws_signup
    paired_with,            \* LotteryInfo.paired_with, per participant
    today,                  \* local_now().date(), in days from a Monday
    info,                   \* Trip.info, per trip: the itinerary last saved
    pending,                \* signup forms past their checks, not yet saved
    log,                    \* the admin posts of two clients, with what each saw
    resp                    \* the last request and its response

db == <<signups, maximum_participants, signups_open, edit_revision, next_pk>>
vars == <<signups, maximum_participants, signups_open, edit_revision, next_pk,
          paired_with, today, info, pending, log, resp>>

\* ---- queries --------------------------------------------------------------
Pks(S) == {s.pk : s \in S}

Row(S, pk) == CHOOSE s \in S : s.pk = pk

\* trip.signup_set.filter(on_trip=True)
OnTrip(S, t) == {s \in S : s.trip = t /\ s.on_trip}

\* the signups of the trip that are not on it, i.e. its waitlist
Waitlisted(S, t) == {s \in S : s.trip = t /\ ~s.on_trip}

\* order_by('order', 'time_created'): NULLs last, the older row first
Before(a, b) ==
    IF a.order = b.order THEN a.pk < b.pk
    ELSE IF a.order = NoOrder THEN FALSE
    ELSE IF b.order = NoOrder THEN TRUE
    ELSE a.order < b.order

\* the head of the waitlist
WaitlistHead(W) == CHOOSE h \in W : \A o \in W \ {h} : Before(h, o)

MaxOrder(W) ==
    IF \A s \in W : s.order = NoOrder THEN -1
    ELSE CHOOSE m \in {s.order : s \in W} : \A s \in W : s.order <= m

Replace(S, old, new) == (S \ {old}) \cup {new}

\* ---- placement (ws.utils.signups) ----------------------------------------
\* Put the signup on its trip if the trip has room, else at the tail of the
\* trip's waitlist.  A closed trip refuses when trip_must_be_open.
trip_or_wait(S, pk, cap, open, trip_must_be_open) ==
    LET s == Row(S, pk)
        t == s.trip
    IN  IF trip_must_be_open /\ ~open[t] THEN S
        ELSE IF Cardinality(OnTrip(S, t)) < cap[t]
             THEN Replace(S, s, [s EXCEPT !.on_trip = TRUE])
             ELSE Replace(S, s, [s EXCEPT !.on_trip = FALSE,
                     !.order = MaxOrder(Waitlisted(S, t) \ {s}) + 1])

\* signup.order = order; signup.save()
set_order(S, pk, order) ==
    LET s == Row(S, pk) IN Replace(S, s, [s EXCEPT !.order = order])

\* Move the waitlisted signups of trip t that hold position `order`, other
\* than those in `skip`, one position down, after making room for them there.
RECURSIVE renumber(_, _, _, _)
renumber(S, t, skip, order) ==
    LET hit == {w \in Waitlisted(S, t) : w.pk \notin skip /\ w.order = order}
    IN  IF hit = {} THEN S
        ELSE LET w == CHOOSE h \in hit : \A o \in hit : h.pk >= o.pk
                 S1 == renumber(S, t, skip \cup {w.pk}, order + 1)
             IN renumber(Replace(S1, w, [w EXCEPT !.order = order + 1]),
                         t, skip, order)

\* next_in_order that only writes the position
next_in_order_plain(S, pk, order) == set_order(S, pk, order)

\* Give the signup the given position in the ordering.  When it is on the
\* waitlist and another signup of that waitlist holds the position, that one
\* and those that follow it are renumbered, so that no two of a waitlist tie.
next_in_order(S, pk, order) ==
    LET s == Row(S, pk)
    IN  IF s.on_trip THEN set_order(S, pk, order)
        ELSE set_order(renumber(S, s.trip, {pk}, order), pk, order)

\* post_delete of a SignUp: a freed seat goes to the head of the waitlist.
free_spot_on_trip(S, gone) ==
    LET W == Waitlisted(S, gone.trip)
    IN  IF gone.on_trip /\ W # {}
        THEN Replace(S, WaitlistHead(W), [WaitlistHead(W) EXCEPT !.on_trip = TRUE])
        ELSE S

\* ---- SignUpView ----------------------------------------------------------
\* form_valid without its guard against a direct POST to a closed trip
form_valid_errors_unguarded(S, open, p, t) ==
    IF \E s \in S : s.participant = p /\ s.trip = t THEN "Already signed up!"
    ELSE ""

\* The checks of SignUpView.form_valid; "" when the form may be saved.
form_valid_errors(S, open, p, t) ==
    IF \E s \in S : s.participant = p /\ s.trip = t THEN "Already signed up!"
    ELSE IF ~open[t] THEN "Signups aren't open!"
    ELSE ""

\* super().form_valid: the row is inserted and then placed.
form_save(S, pk, p, t, cap, open) ==
    trip_or_wait(S \cup {[pk |-> pk, participant |-> p, trip |-> t,
                          on_trip |-> FALSE, order |-> NoOrder]},
                 pk, cap, open, FALSE)

\* geardb.repr_blank_membership: what is reported of somebody unknown
repr_blank_membership ==
    [membership |-> [expires |-> NoDate, active |-> FALSE, email |-> NoEmail],
     waiver |-> [expires |-> NoDate, active |-> FALSE],
     status |-> "Missing"]

NoResp == [op |-> "none", status |-> 0, err |-> "", notices |-> 0,
           msg_type |-> "", bumped |-> <<>>, hide_sensitive_info |-> FALSE,
           person |-> repr_blank_membership, matched |-> 0]

\* SignUpView.form_valid, handled without another request in between
SignUp(p, t) ==
    LET err == form_valid_errors(signups, signups_open, p, t)
    IN  /\ err = "" => next_pk <= MaxPk
        /\ signups' = IF err # "" THEN signups
                      ELSE form_save(signups, next_pk, p, t,
                                     maximum_participants, signups_open)
        /\ next_pk' = IF err # "" THEN next_pk ELSE next_pk + 1
        /\ resp' = [NoResp EXCEPT !.op = "signup",
                        !.status = IF err = "" THEN 302 ELSE 200, !.err = err]
        /\ UNCHANGED <<maximum_participants, signups_open, edit_revision,
                       pending, paired_with, today, info, log>>

\* Two requests of SignUpView in flight: form_valid up to its checks ...
SignUpCheck(p, t) ==
    LET err == form_valid_errors(signups, signups_open, p, t)
    IN  /\ err = "" => Len(pending) < MaxPending
        /\ pending' = IF err = "" THEN Append(pending, <<p, t>>) ELSE pending
        /\ resp' = [NoResp EXCEPT !.op = "signup_check",
                        !.status = IF err = "" THEN 0 ELSE 200, !.err = err]
        /\ UNCHANGED <<db, paired_with, today, info, log>>

\* ... and from there on, for the i-th request in flight
SignUpSave(i) ==
    /\ i \in DOMAIN pending
    /\ next_pk <= MaxPk
    /\ signups' = form_save(signups, next_pk, pending[i][1], pending[i][2],
                            maximum_participants, signups_open)
    /\ next_pk' = next_pk + 1
    /\ pending' = [j \in 1..(Len(pending) - 1) |->
                      IF j < i THEN pending[j] ELSE pending[j + 1]]
    /\ resp' = [NoResp EXCEPT !.op = "signup", !.status = 302]
    /\ UNCHANGED <<maximum_participants, signups_open, edit_revision,
                   paired_with, today, info, log>>

\* Time passes the trip's signups_close_at.
CloseSignups(t) ==
    /\ signups_open[t]
    /\ signups_open' = [signups_open EXCEPT ![t] = FALSE]
    /\ resp' = [NoResp EXCEPT !.op = "close"]
    /\ UNCHANGED <<signups, maximum_participants, edit_revision, next_pk,
                   pending, paired_with, today, info, log>>

\* ---- AdminTripSignupsView ------------------------------------------------
\* One dict of the posted 'signups' list.  `participant` is read for a new
\* signup only.
Readable(S) ==
    [id : Pks(S), deleted : BOOLEAN, participant : {"p1"}]
    \cup {[id |-> NoId, deleted |-> TRUE, participant |-> "p1"]}

\* the dicts at which to_objects raises
Failing(unknown) ==
    {[id |-> KeyMissing, deleted |-> FALSE, participant |-> "p1"],
     [id |-> unknown, deleted |-> FALSE, participant |-> "p1"]}
    \cup [id : {NoId}, deleted : {FALSE}, participant : {"p1", "p9"}]

\* The posted lists: no signup is named twice, and since to_objects reads
\* nothing after the first dict it fails at, the lists end there.
PostedLists(S, unknown) ==
    {l \in UNION {[1..n -> Readable(S) \cup Failing(unknown)] : n \in 0..MaxBatch} :
        /\ \A i, j \in DOMAIN l : (i # j /\ l[i].id >= 1) => l[i].id # l[j].id
        /\ \A i \in DOMAIN l : l[i] \in Failing(unknown) => i = Len(l)}

\* postdata.get('maximum_participants'): absent, a string, or an integer
MaxParticipantsInputs ==
    {[kind |-> "absent", val |-> 0], [kind |-> "str", val |-> 0]}
    \cup [kind : {"int"}, val : -1..MaxCap]

\* Python truth of the posted value
Truthy(m) == m.kind = "str" \/ (m.kind = "int" /\ m.val # 0)

\* trip.full_clean() accepts the value as Trip.maximum_participants
full_clean(m) == m.kind = "int" /\ m.val >= 1

\* to_objects passing over the dicts it cannot read instead of raising
RECURSIVE to_objects_skipping(_, _)
to_objects_skipping(posted, S) ==
    IF posted = <<>> THEN [status |-> 200, objs |-> <<>>]
    ELSE LET d == Head(posted)
             rest == to_objects_skipping(Tail(posted), S)
         IN  IF d.id \in Pks(S)
             THEN [status |-> 200,
                   objs |-> <<[pk |-> d.id, remove |-> d.deleted]>> \o rest.objs]
             ELSE rest

\* to_objects: the (signup, remove) pairs of the posted list, or the status
\* of the error raised at the first dict that fails.  400 is KeyError or
\* ObjectDoesNotExist; 500 is the error of reading `signup['participant']`,
\* which post does not catch.
RECURSIVE to_objects(_, _)
to_objects(posted, S) ==
    IF posted = <<>> THEN [status |-> 200, objs |-> <<>>]
    ELSE LET d == Head(posted)
             rest == to_objects(Tail(posted), S)
         IN  IF d.id = KeyMissing THEN [status |-> 400, objs |-> <<>>]
             ELSE IF d.id # NoId
             THEN IF d.id \notin Pks(S) THEN [status |-> 400, objs |-> <<>>]
                  ELSE IF rest.status # 200 THEN rest
                  ELSE [status |-> 200,
                        objs |-> <<[pk |-> d.id, remove |-> d.deleted]>> \o rest.objs]
             ELSE IF d.deleted THEN rest
             ELSE [status |-> 500, objs |-> <<>>]

\* a first loop that takes every signup off its trip
clear_on_trip_all(S, objs) == {[s EXCEPT !.on_trip = FALSE] : s \in S}

\* the first loop of update_signups: the listed signups are taken off the trip
RECURSIVE clear_on_trip(_, _)
clear_on_trip(S, objs) ==
    IF objs = <<>> THEN S
    ELSE LET s == Row(S, Head(objs).pk)
         IN clear_on_trip(Replace(S, s, [s EXCEPT !.on_trip = FALSE]), Tail(objs))

\* the second loop placing signups only on trips whose signups are open
RECURSIVE add_in_order_open_only(_, _, _, _, _)
add_in_order_open_only(S, objs, order, cap, open) ==
    IF objs = <<>> THEN S
    ELSE LET o == Head(objs)
             S1 == IF o.remove THEN S \ {Row(S, o.pk)}
                   ELSE next_in_order(trip_or_wait(S, o.pk, cap, open, TRUE),
                                      o.pk, order)
         IN add_in_order_open_only(S1, Tail(objs), order + 1, cap, open)

\* the second loop of update_signups, from position `order` on
RECURSIVE add_in_order(_, _, _, _, _)
add_in_order(S, objs, order, cap, open) ==
    IF objs = <<>> THEN S
    ELSE LET o == Head(objs)
             S1 == IF o.remove THEN S \ {Row(S, o.pk)}
                   ELSE next_in_order(trip_or_wait(S, o.pk, cap, open, FALSE),
                                      o.pk, order)
         IN add_in_order(S1, Tail(objs), order + 1, cap, open)

\* update_signups without skip_signals: the delete of a signup that was on
\* the trip hands its spot to the head of the waitlist
update_signups_bumping(S, objs, cap, open) ==
    LET done == add_in_order(clear_on_trip(S, objs), objs, 0, cap, open)
        gone == {s \in S : \E i \in DOMAIN objs : objs[i].pk = s.pk /\ objs[i].remove}
    IN  IF gone = {} THEN done
        ELSE free_spot_on_trip(done, CHOOSE s \in gone : TRUE)

update_signups(S, objs, cap, open) ==
    add_in_order(clear_on_trip(S, objs), objs, 0, cap, open)

\* update: the rows, capacities and revisions it leaves, 400 on a
\* ValidationError
update(S, cap, rev, open, t, objs, m) ==
    IF Truthy(m) /\ ~full_clean(m)
    THEN [status |-> 400, signups |-> S, cap |-> cap, rev |-> rev]
    ELSE LET cap1 == IF Truthy(m) THEN [cap EXCEPT ![t] = m.val] ELSE cap
         IN [status |-> 200, signups |-> update_signups(S, objs, cap1, open),
             cap |-> cap1, rev |-> rev]

\* AdminTripSignupsView.post: the response status, and the rows, capacities
\* and revisions the request leaves
post(S, cap, rev, open, t, posted, m) ==
    LET parsed == to_objects(posted, S)
    IN  IF parsed.status # 200
        THEN [status |-> parsed.status, signups |-> S, cap |-> cap, rev |-> rev]
        ELSE update(S, cap, rev, open, t, parsed.objs, m)

\* AdminTripSignupsView.post for trip t, with the list and capacity posted
AdminTripSignupsPost(t, posted, m) ==
    LET done == post(signups, maximum_participants, edit_revision,
                     signups_open, t, posted, m)
    IN  /\ signups' = done.signups
        /\ maximum_participants' = done.cap
        /\ edit_revision' = done.rev
        /\ resp' = [NoResp EXCEPT !.op = "batch", !.status = done.status]
        /\ UNCHANGED <<signups_open, next_pk, pending, paired_with, today, info>>

\* a capacity no trip may have: a string, zero or a negative number
BadCapacity(m) == m.kind = "str" \/ (m.kind = "int" /\ m.val <= 0)

\* what a posted dict must not be: no 'id' key, the id of no signup, or a
\* new signup for nobody
BadInstruction(d, S) ==
    \/ d.id = KeyMissing
    \/ d.id >= 1 /\ d.id \notin Pks(S)
    \/ d.id = NoId /\ ~d.deleted /\ d.participant \notin Pars

\* the capacities posted where no request is logged: 0 is handled as absent
\* is, and a negative number as a string is
SpecCapacities == {m \in MaxParticipantsInputs : m.kind # "int" \/ m.val > 0}

\* an admin post for trip t
AdminPost(t) ==
    \E posted \in PostedLists(signups, next_pk) : \E m \in SpecCapacities :
        AdminTripSignupsPost(t, posted, m) /\ UNCHANGED log

\* an admin post that adds a participant who has no signup yet
AdminAdd(t, q) ==
    /\ AdminTripSignupsPost(t, <<[id |-> NoId, deleted |-> FALSE, participant |-> q]>>,
                            [kind |-> "absent", val |-> 0])
    /\ UNCHANGED log

\* an admin post sent by a client that believes the trip is at revision rev
LoggedPost(t, rev) ==
  \E posted \in PostedLists(signups, next_pk) : \E m \in MaxParticipantsInputs :
    /\ Len(log) < MaxLog
    /\ AdminTripSignupsPost(t, posted, m)
    /\ log' = Append(log,
          [trip |-> t, rev |-> rev, status |-> resp'.status,
           before |-> edit_revision[t], after |-> edit_revision'[t],
           badcap |-> BadCapacity(m),
           valid |-> /\ \A i \in DOMAIN posted : posted[i].id \in Pks(signups)
                     /\ ~BadCapacity(m),
           changed |-> db' # db])

\* ---- LotteryPairingMixin, LotteryPreferencesView -----------------------
algorithm == [t \in Trips |-> IF t = 1 THEN "fcfs" ELSE "lottery"]
\* both trips are on the Saturday of the first week
trip_date == [t \in Trips |-> 5]

\* None when the participant has no LotteryInfo or is paired with nobody
paired_par(pw, p) == IF pw[p] = NoInfo THEN NoPar ELSE pw[p]

\* reciprocally_paired taking a request for an answer
reciprocally_paired_onesided(pw, p) == paired_par(pw, p) # NoPar

\* whether p and the participant p asked for have asked for each other
reciprocally_paired(pw, p) ==
    IF paired_par(pw, p) # NoPar
    THEN IF pw[paired_par(pw, p)] = NoInfo THEN FALSE
         ELSE pw[paired_par(pw, p)] = p
    ELSE FALSE

\* the rows of a set in order_by('order', 'time_created')
RECURSIVE Ordered(_)
Ordered(W) ==
    IF W = {} THEN <<>>
    ELSE <<WaitlistHead(W)>> \o Ordered(W \ {WaitlistHead(W)})

\* ranked_signups without its filter on the trip
ranked_signups_all(S, p, now) == Ordered({s \in S : s.participant = p})

\* ranked_signups: the participant's signups for lottery trips yet to come
ranked_signups(S, p, now) ==
    Ordered({s \in S : /\ s.participant = p
                       /\ algorithm[s.trip] = "lottery"
                       /\ trip_date[s.trip] > now})

\* One dict of the posted 'signups' list of the lottery preferences.
Preferences(S, unknown) ==
    [id : Pks(S) \cup {unknown}, deleted : {FALSE}, order : 0..MaxRank]
    \cup [id : Pks(S) \cup {unknown}, deleted : {TRUE}, order : {0}]

PreferenceLists(S, unknown) ==
    UNION {[1..n -> Preferences(S, unknown)] : n \in 0..MaxPosted}

\* a first loop that looks the posted ids up among the signups of everybody
RECURSIVE save_orders_any(_, _, _)
save_orders_any(S, posts, p) ==
    IF posts = <<>> THEN [status |-> 200, signups |-> S]
    ELSE LET d == Head(posts)
         IN  IF d.deleted THEN save_orders_any(S, Tail(posts), p)
             ELSE IF d.id \notin Pks(S) THEN [status |-> 500, signups |-> S]
             ELSE save_orders_any(set_order(S, d.id, d.order), Tail(posts), p)

\* the first loop of save_signups; 500 when par_signups.get finds no row,
\* with the rows saved before it kept
RECURSIVE save_orders(_, _, _)
save_orders(S, posts, p) ==
    IF posts = <<>> THEN [status |-> 200, signups |-> S]
    ELSE LET d == Head(posts)
         IN  IF d.deleted THEN save_orders(S, Tail(posts), p)
             ELSE IF ~\E s \in S : s.pk = d.id /\ s.participant = p
             THEN [status |-> 500, signups |-> S]
             ELSE save_orders(set_order(S, d.id, d.order), Tail(posts), p)

\* post_delete for each of the deleted rows, the lowest key first
RECURSIVE freed_spots(_, _)
freed_spots(S, D) ==
    IF D = {} THEN S
    ELSE LET d == CHOOSE x \in D : \A y \in D : x.pk <= y.pk
         IN freed_spots(free_spot_on_trip(S, d), D \ {d})

\* save_signups deleting the rows without their post_delete signal
save_signups_quiet(S, posts, p) ==
    LET saved == save_orders(S, posts, p)
        del_ids == {posts[i].id : i \in {j \in DOMAIN posts : posts[j].deleted}}
        D == {s \in saved.signups : s.participant = p /\ s.pk \in del_ids}
    IN  IF saved.status # 200 THEN saved
        ELSE [status |-> 200, signups |-> saved.signups \ D]

save_signups(S, posts, p) ==
    LET saved == save_orders(S, posts, p)
        del_ids == {posts[i].id : i \in {j \in DOMAIN posts : posts[j].deleted}}
        D == {s \in saved.signups : s.participant = p /\ s.pk \in del_ids}
    IN  IF saved.status # 200 THEN saved
        ELSE [status |-> 200, signups |-> freed_spots(saved.signups \ D, D)]

\* the loop of handle_paired_signups over the signups left to rank
RECURSIVE pair_orders(_, _, _)
pair_orders(acc, ranked, partner) ==
    IF ranked = <<>> \/ acc.status # 200 THEN acc
    ELSE LET mine == Head(ranked)
             theirs == {s \in acc.signups : s.participant = partner
                                            /\ s.trip = mine.trip}
         IN  IF theirs = {}
             THEN pair_orders([acc EXCEPT !.notices = @ + 1], Tail(ranked), partner)
             ELSE IF Cardinality(theirs) > 1
             THEN [acc EXCEPT !.status = 500]
             ELSE pair_orders([acc EXCEPT !.signups =
                     set_order(@, (CHOOSE s \in theirs : TRUE).pk, mine.order)],
                     Tail(ranked), partner)

\* handle_paired_signups without its first check
handle_paired_signups_unchecked(S, pw, p, now) ==
    IF paired_par(pw, p) = NoPar
    THEN [status |-> 200, signups |-> S, notices |-> 0]
    ELSE pair_orders([status |-> 200, signups |-> S, notices |-> 0],
                     ranked_signups(S, p, now), paired_par(pw, p))

\* handle_paired_signups: the partner's signups get the orders of p's
handle_paired_signups(S, pw, p, now) ==
    IF ~reciprocally_paired(pw, p)
    THEN [status |-> 200, signups |-> S, notices |-> 0]
    ELSE pair_orders([status |-> 200, signups |-> S, notices |-> 0],
                     ranked_signups(S, p, now), paired_par(pw, p))

\* LotteryPreferencesView.post by participant p; ok: the forms are valid.
\* The status, the rows and the notices it leaves.
preferences_post(S, pw, now, p, ok, posts) ==
    LET saved == save_signups(S, posts, p)
    IN  IF ~ok THEN [status |-> 400, signups |-> S, notices |-> 0]
        ELSE IF saved.status # 200
        THEN [status |-> 500, signups |-> saved.signups, notices |-> 0]
        ELSE handle_paired_signups(saved.signups, pw, p, now)

LotteryPreferencesPost(p, ok, posts) ==
    LET done == preferences_post(signups, paired_with, today, p, ok, posts)
    IN  /\ signups' = done.signups
        \* lottery_info.save() stores a LotteryInfo row for p if there was none
        /\ paired_with' = IF ok /\ paired_with[p] = NoInfo
                          THEN [paired_with EXCEPT ![p] = NoPar]
                          ELSE paired_with
        /\ resp' = [NoResp EXCEPT !.op = "preferences",
                        !.status = done.status, !.notices = done.notices]
        /\ UNCHANGED <<maximum_participants, signups_open, edit_revision,
                       next_pk, pending, today, info, log>>

\* a lottery-preference post by participant p
LotteryPreferences(p, ok) ==
    \E posts \in PreferenceLists(signups, next_pk) :
        LotteryPreferencesPost(p, ok, posts)

\* a valid lottery-preference post by participant p that names one signup,
\* which is not p's
LotteryPreferencesOthers(p) ==
    \E s \in signups : \E d \in Preferences(signups, next_pk) :
        LET done == preferences_post(signups, paired_with, today, p, TRUE, <<d>>)
        IN  /\ s.participant # p /\ d.id = s.pk
            /\ signups' = done.signups
            /\ paired_with' = IF paired_with[p] = NoInfo
                              THEN [paired_with EXCEPT ![p] = NoPar]
                              ELSE paired_with
            /\ resp' = [NoResp EXCEPT !.op = "preferences_others",
                            !.status = done.status, !.notices = done.notices]
            /\ UNCHANGED <<maximum_participants, signups_open, edit_revision,
                           next_pk, pending, today, info, log>>

Init ==
    /\ signups = {}
    /\ maximum_participants = [t \in Trips |-> 1]
    /\ signups_open = [t \in Trips |-> TRUE]
    /\ edit_revision = [t \in Trips |-> 0]
    /\ next_pk = 1
    /\ paired_with = [p \in Members |-> NoPar]
    /\ today = 0
    /\ info = [t \in Trips |-> NoItinerary]
    /\ pending = <<>>
    /\ log = <<>>
    /\ resp = NoResp

Next ==
    \/ \E p \in Pars, t \in Edited : SignUp(p, t)
    \/ \E t \in Edited : CloseSignups(t)
    \/ \E t \in Edited : AdminPost(t)
    \/ \E p \in Pars, ok \in BOOLEAN : LotteryPreferences(p, ok)

Spec == Init /\ [][Next]_vars

\* ---- two requests of SignUpView at once ----------------------------------
NextRace ==
    \/ \E p \in Pars, t \in Trips : SignUpCheck(p, t)
    \/ \E i \in 1..MaxPending : SignUpSave(i)
    \/ \E t \in Trips, q \in Pars : AdminAdd(t, q)

SpecRace == Init /\ [][NextRace]_vars

\* ---- admin posts of clients that name the revision they saw -------------
\* the trip after p1 and then p2 signed up for it
InitLog ==
    /\ maximum_participants \in {[t \in Trips |-> c] : c \in 1..MaxCap}
    /\ signups_open = [t \in Trips |-> TRUE]
    /\ signups = form_save(form_save({}, 1, "p1", 1, maximum_participants,
                                     signups_open),
                           2, "p2", 1, maximum_participants, signups_open)
    /\ edit_revision = [t \in Trips |-> 0]
    /\ next_pk = 3
    /\ paired_with = [p \in Members |-> NoPar]
    /\ today = 0
    /\ info = [t \in Trips |-> NoItinerary]
    /\ pending = <<>>
    /\ log = <<>>
    /\ resp = NoResp

NextLog ==
    \E t \in Edited, rev \in 0..MaxRev : LoggedPost(t, rev)

SpecLog == InitLog /\ [][NextLog]_vars

\* ---- CheckTripOverflowView ------------------------------------------------
\* request.GET['maximum_participants']: absent, not a number, or an integer
OverflowInputs ==
    {[kind |-> "absent", val |-> 0], [kind |-> "str", val |-> 0]}
    \cup [kind : {"int"}, val : -1..MaxSeats]

\* qs[:n] and qs[n:] of a queryset, for n >= 0
Take(seq, n) == SubSeq(seq, 1, IF n < Len(seq) THEN n ELSE Len(seq))
Drop(seq, n) == SubSeq(seq, n + 1, Len(seq))

PkSeq(seq) == [i \in DOMAIN seq |-> seq[i].pk]

clear_response == [status |-> 200, msg_type |-> "", bumped |-> <<>>]

\* response_dict: who a change to max_participants would move.  Slicing a
\* queryset from a negative index raises, which get does not catch.
response_dict(S, t, max_participants) ==
    LET on_trip == Ordered(OnTrip(S, t))
        diff == max_participants - Len(on_trip)
        waitlisted == Ordered(Waitlisted(S, t))
    IN  IF diff > 0 /\ Take(waitlisted, diff) # <<>>
        THEN [status |-> 200, msg_type |-> "info",
              bumped |-> PkSeq(Take(waitlisted, diff))]
        ELSE IF diff < 0
        THEN IF max_participants < 0
             THEN [status |-> 500, msg_type |-> "", bumped |-> <<>>]
             ELSE [status |-> 200, msg_type |-> "warning",
                   bumped |-> PkSeq(Drop(on_trip, max_participants))]
        ELSE clear_response

\* get storing the capacity it was asked about
get_applying(S, cap, rev, t, q) ==
    LET r == IF q.kind # "int" THEN clear_response
             ELSE response_dict(S, t, q.val)
    IN  [status |-> r.status, msg_type |-> r.msg_type, bumped |-> r.bumped,
         signups |-> S,
         cap |-> IF q.kind = "int" THEN [cap EXCEPT ![t] = q.val] ELSE cap,
         rev |-> rev]

\* CheckTripOverflowView.get: the response, and the rows, capacities and
\* revisions the request leaves
get(S, cap, rev, t, q) ==
    LET r == IF q.kind # "int" THEN clear_response
             ELSE response_dict(S, t, q.val)
    IN  [status |-> r.status, msg_type |-> r.msg_type, bumped |-> r.bumped,
         signups |-> S, cap |-> cap, rev |-> rev]

CheckTripOverflow(t, q) ==
    LET r == get(signups, maximum_participants, edit_revision, t, q)
    IN  /\ signups' = r.signups
        /\ maximum_participants' = r.cap
        /\ edit_revision' = r.rev
        /\ resp' = [NoResp EXCEPT !.op = "overflow", !.status = r.status,
                        !.msg_type = r.msg_type, !.bumped = r.bumped]
        /\ UNCHANGED <<signups_open, next_pk, pending, paired_with, today,
                       info, log>>

\* SignUpView.form_valid for one of three participants
SignUpMember(p, t) ==
    LET err == form_valid_errors(signups, signups_open, p, t)
    IN  /\ err = "" => next_pk <= MaxRows
        /\ signups' = IF err # "" THEN signups
                      ELSE form_save(signups, next_pk, p, t,
                                     maximum_participants, signups_open)
        /\ next_pk' = IF err # "" THEN next_pk ELSE next_pk + 1
        /\ resp' = [NoResp EXCEPT !.op = "signup",
                        !.status = IF err = "" THEN 302 ELSE 200, !.err = err]
        /\ UNCHANGED <<maximum_participants, signups_open, edit_revision,
                       pending, paired_with, today, info, log>>

\* an admin post that changes the capacity and lists no signup
AdminResize(t, c) ==
    /\ AdminTripSignupsPost(t, <<>>, [kind |-> "int", val |-> c])
    /\ UNCHANGED log

\* an admin post that removes one signup
AdminRemove(t, pk) ==
    /\ pk \in Pks(signups)
    /\ AdminTripSignupsPost(t, <<[id |-> pk, deleted |-> TRUE, participant |-> "p1"]>>,
                            [kind |-> "absent", val |-> 0])
    /\ UNCHANGED log

NextOverflow ==
    \/ \E p \in Members, t \in Edited : SignUpMember(p, t)
    \/ \E t \in Edited, c \in 1..MaxSeats : AdminResize(t, c)
    \/ \E t \in Edited, pk \in 1..MaxRows : AdminRemove(t, pk)
    \/ \E t \in Edited, q \in OverflowInputs : CheckTripOverflow(t, q)

SpecOverflow == Init /\ [][NextOverflow]_vars

\* ---- admin posts where the waitlist is longer than one --------------------
\* an admin post for trip t that leaves the capacity alone
AdminReorder(t) ==
    \E posted \in PostedLists(signups, next_pk) :
        /\ AdminTripSignupsPost(t, posted, [kind |-> "absent", val |-> 0])
        /\ UNCHANGED log

NextWaitlist ==
    \/ \E p \in Members, t \in Edited : SignUpMember(p, t)
    \/ \E t \in Edited : AdminReorder(t)

SpecWaitlist == Init /\ [][NextWaitlist]_vars

\* ---- TripView.post on trips whose signups are closed ----------------------
\* TripView.post: the viewer's signup is placed if the trip's signups are
\* open; 500 when the viewer has no signup for the trip
trip_post(S, cap, open, p, t) ==
    LET mine == {s \in S : s.participant = p /\ s.trip = t}
    IN  IF mine = {} THEN [status |-> 500, signups |-> S]
        ELSE [status |-> 200,
              signups |-> trip_or_wait(S, (CHOOSE s \in mine : TRUE).pk,
                                       cap, open, TRUE)]

\* TripView.post by a participant who is not on the trip, as long as the
\* orders of the waitlist stay within MaxPk
TripPost(p, t) ==
    LET done == trip_post(signups, maximum_participants, signups_open, p, t)
    IN  /\ \A s \in signups : (s.participant = p /\ s.trip = t) => ~s.on_trip
        /\ \A s \in done.signups : s.order <= MaxPk
        /\ signups' = done.signups
        /\ resp' = [NoResp EXCEPT !.op = "trip_post", !.status = done.status,
                        !.err = IF signups_open[t] THEN "" ELSE "SignupsClosed"]
        /\ UNCHANGED <<maximum_participants, signups_open, edit_revision,
                       next_pk, pending, paired_with, today, info, log>>

NextClosed ==
    \/ \E p \in Pars, t \in Edited : SignUp(p, t)
    \/ \E t \in Edited : CloseSignups(t)
    \/ \E t \in Edited : AdminReorder(t)
    \/ \E p \in Pars, t \in Edited : TripPost(p, t)

SpecClosed == Init /\ [][NextClosed]_vars

\* ---- LeadersOnlyView.dispatch -------------------------------------------
\* Who sends a request, for the trip it is about: whether the user has a
\* participant, is in 'leaders' or a chair group (or is a superuser), is one
\* of trip.leaders, is trip.creator, is_chair of trip.activity.
Actors ==
    {a \in [participant : BOOLEAN, in_groups : BOOLEAN, leader : BOOLEAN,
            creator : BOOLEAN, chair : BOOLEAN] :
        (a.leader \/ a.creator) => a.participant}

leader_on_trip(actor, creator_allowed) ==
    IF ~actor.participant THEN FALSE
    ELSE actor.leader \/ (creator_allowed /\ actor.creator)

\* dispatch that lets everybody of the groups edit every trip
dispatch_unchecked(actor, S, cap, rev, open, t, posted, m) ==
    IF ~actor.in_groups
    THEN [status |-> 403, err |-> "PermissionDenied", parsed |-> FALSE,
          signups |-> S, cap |-> cap, rev |-> rev]
    ELSE LET done == post(S, cap, rev, open, t, posted, m)
         IN [status |-> done.status, err |-> "", parsed |-> TRUE,
             signups |-> done.signups, cap |-> done.cap, rev |-> done.rev]

\* LeadersOnlyView.dispatch in front of AdminTripSignupsView.post: 403 from
\* group_required, the page not_your_trip.html, or what post answers
dispatch(actor, S, cap, rev, open, t, posted, m) ==
    IF ~actor.in_groups
    THEN [status |-> 403, err |-> "PermissionDenied", parsed |-> FALSE,
          signups |-> S, cap |-> cap, rev |-> rev]
    ELSE IF ~(leader_on_trip(actor, TRUE) \/ actor.chair)
    THEN [status |-> 200, err |-> "not_your_trip", parsed |-> FALSE,
          signups |-> S, cap |-> cap, rev |-> rev]
    ELSE LET done == post(S, cap, rev, open, t, posted, m)
         IN [status |-> done.status, err |-> "", parsed |-> TRUE,
             signups |-> done.signups, cap |-> done.cap, rev |-> done.rev]

\* a request to AdminTripSignupsView for trip t sent by actor, that leaves
\* the capacity alone
AdminDispatch(actor, t) ==
    \E posted \in PostedLists(signups, next_pk) :
        LET done == dispatch(actor, signups, maximum_participants,
                             edit_revision, signups_open, t, posted,
                             [kind |-> "absent", val |-> 0])
        IN  /\ signups' = done.signups
            /\ maximum_participants' = done.cap
            /\ edit_revision' = done.rev
            /\ resp' = [NoResp EXCEPT !.op = "dispatch",
                            !.status = done.status, !.err = done.err]
            /\ UNCHANGED <<signups_open, next_pk, pending, paired_with, today,
                           info, log>>

NextAuth ==
    \/ \E p \in Pars, t \in Edited : SignUp(p, t)
    \/ \E actor \in Actors, t \in Edited : AdminDispatch(actor, t)

SpecAuth == Init /\ [][NextAuth]_vars

\* ---- admin posts for one trip while another trip has signups -------------
NextCross ==
    \/ \E p \in Pars, t \in Trips : SignUp(p, t)
    \/ \E t \in Edited : AdminPost(t)

SpecCross == Init /\ [][NextCross]_vars

\* ---- LotteryPairingView --------------------------------------------------
\* LotteryPairForm taking whoever is chosen
pair_form_is_valid_any(p, target) == TRUE

\* LotteryPairForm, built with the participant it is for, does not take that
\* participant as the one to pair with
pair_form_is_valid(p, target) == target # p

\* LotteryPairingView.form_valid / form_invalid: p asks to be paired with
\* target, or with nobody
LotteryPairing(p, target) ==
    LET ok == pair_form_is_valid(p, target)
    IN  /\ paired_with' = IF ok THEN [paired_with EXCEPT ![p] = target]
                          ELSE paired_with
        /\ resp' = [NoResp EXCEPT !.op = "pairing",
                        !.status = IF ok THEN 302 ELSE 200,
                        !.err = IF ok THEN "" ELSE "Select a valid choice."]
        /\ UNCHANGED <<db, today, info, pending, log>>

\* the day of the trip comes
TripDay(t) ==
    /\ today < trip_date[t]
    /\ today' = trip_date[t]
    /\ resp' = [NoResp EXCEPT !.op = "day"]
    /\ UNCHANGED <<db, paired_with, info, pending, log>>

\* nobody has stored lottery preferences yet
InitPairing ==
    /\ signups = {}
    /\ maximum_participants = [t \in Trips |-> 1]
    /\ signups_open = [t \in Trips |-> TRUE]
    /\ edit_revision = [t \in Trips |-> 0]
    /\ next_pk = 1
    /\ paired_with = [p \in Members |-> NoInfo]
    /\ today = 0
    /\ info = [t \in Trips |-> NoItinerary]
    /\ pending = <<>>
    /\ log = <<>>
    /\ resp = NoResp

NextPairing ==
    \/ \E p \in Pars, t \in Trips : SignUp(p, t)
    \/ \E p \in Pars, target \in Members \cup {NoPar} : LotteryPairing(p, target)
    \/ \E p \in Pars, ok \in BOOLEAN : LotteryPreferences(p, ok)
    \/ \E p \in Pars : LotteryPreferencesOthers(p)
    \/ \E t \in Trips : TripDay(t)

SpecPairing == InitPairing /\ [][NextPairing]_vars

\* ---- ItineraryEditableMixin, TripItineraryView, TripMedicalView -----------
\* date.weekday(): Monday is 0
weekday(d) == d % 7

\* ws.utils.dates.friday_before: the last Friday that is not after the date
friday_before(d) == d - ((weekday(d) + 3) % 7)

\* info_form_available: the itinerary may be submitted from that Friday on
info_form_available(now, t) == now >= friday_before(trip_date[t])

\* medical information hidden from the fifth day after the trip on
hide_sensitive_info_early(now, d) == now >= d + 5

\* TripMedicalView.get_context_data: is_past_trip
hide_sensitive_info(now, d) == now > d + 5

\* form_valid storing the itinerary whatever the day
itinerary_form_valid_any(inf, now, t, content) ==
    [status |-> 302, err |-> "", info |-> [inf EXCEPT ![t] = content]]

\* TripItineraryView.form_valid: the response and the itineraries it leaves
itinerary_form_valid(inf, now, t, content) ==
    IF ~info_form_available(now, t)
    THEN [status |-> 200, err |-> "Form not yet available!", info |-> inf]
    ELSE [status |-> 302, err |-> "", info |-> [inf EXCEPT ![t] = content]]

\* a leader posts the itinerary form of trip t; valid: the form validates
TripItinerary(t, content, valid) ==
    LET r == IF valid THEN itinerary_form_valid(info, today, t, content)
             ELSE [status |-> 200, err |-> "invalid", info |-> info]
    IN  /\ info' = r.info
        /\ resp' = [NoResp EXCEPT !.op = "itinerary", !.status = r.status,
                        !.err = r.err]
        /\ UNCHANGED <<db, paired_with, today, pending, log>>

\* TripMedicalView: the page of trip t is read
TripMedical(t) ==
    /\ resp' = [NoResp EXCEPT !.op = "medical", !.status = 200,
                    !.hide_sensitive_info =
                        hide_sensitive_info(today, trip_date[t])]
    /\ UNCHANGED <<db, paired_with, today, info, pending, log>>

\* the next day
Tick ==
    /\ today < MaxDay
    /\ today' = today + 1
    /\ resp' = [NoResp EXCEPT !.op = "day"]
    /\ UNCHANGED <<db, paired_with, info, pending, log>>

NextGate ==
    \/ Tick
    \/ \E t \in Trips, c \in 1..MaxItinerary, valid \in BOOLEAN :
          TripItinerary(t, c, valid)
    \/ \E t \in Trips : TripMedical(t)

SpecGate == Init /\ [][NextGate]_vars

\* ---- ws.utils.geardb: memberships and waivers ----------------------------
Emails == {"tim@mit.edu", "member_1@example.com", "not.found@example.com"}
ExpiryDates == {3, 9}

\* an expiration date that has not passed
is_active(expires, now) == expires # NoDate /\ expires >= now

\* format_membership calling everybody with a current membership active
format_membership_no_waiver(email, membership_expires, waiver_expires, now) ==
    LET m == is_active(membership_expires, now)
        w == is_active(waiver_expires, now)
    IN  [membership |-> [expires |-> membership_expires, active |-> m,
                         email |-> email],
         waiver |-> [expires |-> waiver_expires, active |-> w],
         status |-> IF m THEN "Active"
                    ELSE IF w THEN "Missing Membership" ELSE "Expired"]

\* format_membership: the membership and the waiver of one person and the
\* status they add up to
format_membership(email, membership_expires, waiver_expires, now) ==
    LET m == is_active(membership_expires, now)
        w == is_active(waiver_expires, now)
    IN  [membership |-> [expires |-> membership_expires, active |-> m,
                         email |-> email],
         waiver |-> [expires |-> waiver_expires, active |-> w],
         status |-> IF m
                    THEN IF waiver_expires = NoDate THEN "Missing Waiver"
                         ELSE IF ~w THEN "Waiver Expired"
                         ELSE "Active"
                    ELSE IF w THEN "Missing Membership" ELSE "Expired"]

\* The people of the gear database as its query returns them: one row per
\* email, the membership that expires last coming last; membership and
\* waiver expire on the same day.
GearRows == [email : Emails, expires : ExpiryDates]

GearTables ==
    {g \in UNION {[1..n -> GearRows] : n \in 0..MaxMembers} :
        \A i, j \in DOMAIN g :
            i < j => /\ g[i].email # g[j].email
                     /\ g[i].expires <= g[j].expires}

\* the lists of emails asked about
EmailLists ==
    {l \in UNION {[1..n -> Emails] : n \in 0..MaxMembers} :
        \A i, j \in DOMAIN l : i # j => l[i] # l[j]}

InList(e, l) == \E i \in DOMAIN l : l[i] = e

\* matching_memberships: the formatted people with one of the emails, in the
\* order of the query; no query is made for no emails
matching_memberships(emails, gear, now) ==
    IF emails = <<>> THEN [queried |-> FALSE, matches |-> <<>>]
    ELSE LET rows == SelectSeq(gear, LAMBDA r : InList(r.email, emails))
         IN  [queried |-> TRUE,
              matches |-> [i \in DOMAIN rows |->
                              format_membership(rows[i].email,
                                                rows[i].expires,
                                                rows[i].expires, now)]]

\* membership_expiration taking the first match
membership_expiration_first(emails, gear, now) ==
    LET found == matching_memberships(emails, gear, now).matches
    IN  IF found = <<>> THEN repr_blank_membership ELSE found[1]

\* membership_expiration: the newest of the matching memberships
membership_expiration(emails, gear, now) ==
    LET found == matching_memberships(emails, gear, now).matches
    IN  IF found = <<>> THEN repr_blank_membership ELSE found[Len(found)]

\* one person's membership is formatted
FormatMembership(email, membership_expires, waiver_expires) ==
    /\ resp' = [NoResp EXCEPT !.op = "format_membership",
                    !.person = format_membership(email, membership_expires,
                                                 waiver_expires, today)]
    /\ UNCHANGED <<db, paired_with, today, info, pending, log>>

\* the membership under some emails is looked up
MembershipExpiration(emails, gear) ==
    /\ resp' = [NoResp EXCEPT !.op = "membership_expiration",
                    !.person = membership_expiration(emails, gear, today),
                    !.matched = Len(matching_memberships(emails, gear,
                                                         today).matches)]
    /\ UNCHANGED <<db, paired_with, today, info, pending, log>>

NextGear ==
    \/ Tick
    \/ \E e \in Emails, m \in ExpiryDates, w \in ExpiryDates \cup {NoDate} :
          FormatMembership(e, m, w)
    \/ \E emails \in EmailLists, gear \in GearTables :
          MembershipExpiration(emails, gear)

SpecGear == Init /\ [][NextGear]_vars

\* ---- the claims -------------------------------------------------------------
\* the signups a posted list keeps, in its order
RECURSIVE Kept(_)
Kept(objs) ==
    IF objs = <<>> THEN <<>>
    ELSE IF Head(objs).remove THEN Kept(Tail(objs))
    ELSE <<Head(objs).pk>> \o Kept(Tail(objs))

\* C1: of two admin posts for the same trip that carry the same revision, the
\* one the trip was at when the first arrived, exactly one is accepted and
\* moves the revision up by one; the other is refused and changes nothing.
C1_OneWriterWins ==
    \A i, j \in DOMAIN log :
        (/\ i < j
         /\ log[i].trip = log[j].trip
         /\ log[i].rev = log[j].rev
         /\ log[i].rev = log[i].before
         /\ log[i].valid /\ log[j].valid)
        => /\ log[i].status = 200
           /\ log[i].after = log[i].before + 1
           /\ log[j].status # 200
           /\ ~log[j].changed

\* C2: an admin post that carries another revision than the trip's is
\* refused and leaves capacity, signups and revision as they were.
C2_StaleRevisionRefused ==
    \A i \in DOMAIN log :
        log[i].rev # log[i].before => log[i].status # 200 /\ ~log[i].changed

\* C3: no trip has more signups on it than its maximum_participants.
C3_CapacityInvariant ==
    \A t \in Trips : Cardinality(OnTrip(signups, t)) <= maximum_participants[t]

\* C4: an accepted admin post puts the first `capacity` signups it keeps on
\* the trip, in the order posted, and the rest on the waitlist in that order,
\* whoever was on the trip or the waitlist before.
C4_BatchDeterminism ==
    \A posted \in PostedLists(signups, next_pk) :
      \A t \in Edited, m \in MaxParticipantsInputs :
        LET r == post(signups, maximum_participants, edit_revision,
                      signups_open, t, posted, m)
            kept == Kept(to_objects(posted, signups).objs)
        IN  r.status = 200 =>
              \A i \in DOMAIN kept :
                 /\ Row(r.signups, kept[i]).on_trip <=> i <= r.cap[t]
                 /\ \A j \in DOMAIN kept :
                       (i < j /\ i > r.cap[t])
                       => Before(Row(r.signups, kept[i]), Row(r.signups, kept[j]))

\* C5: an admin post with a dict that has no id key, names no signup or names
\* no participant, or one that is answered with an error, leaves the signups
\* of the trip, its capacity and its revision exactly as they were.
C5_BatchAtomic ==
    \A posted \in PostedLists(signups, next_pk) :
      \A t \in Edited, m \in MaxParticipantsInputs :
        LET r == post(signups, maximum_participants, edit_revision,
                      signups_open, t, posted, m)
        IN  ((\E i \in DOMAIN posted : BadInstruction(posted[i], signups))
             \/ r.status # 200)
            => /\ r.status # 200
               /\ r.signups = signups
               /\ r.cap = maximum_participants
               /\ r.rev = edit_revision

\* C5 witness: an admin post has been refused on a trip that has signups
C5_Witness ==
    resp.op = "batch" /\ resp.status = 400 /\ signups # {}

\* C6: no participant has two signups for the same trip.
C6_Uniqueness ==
    \A a, b \in signups :
        (a.participant = b.participant /\ a.trip = b.trip) => a = b

\* C7: the revision of a trip is 0 at first, and every accepted admin post,
\* with or without a new capacity, moves it up by one.
C7_RevisionIncrements ==
    /\ log = <<>> => \A t \in Trips : edit_revision[t] = 0
    /\ \A i \in DOMAIN log :
          log[i].status = 200 => log[i].after = log[i].before + 1

\* C8: an admin post with a negative, zero or non-integer capacity is refused
\* and changes neither the capacity nor any signup.
C8_BadCapacityRefused ==
    \A i \in DOMAIN log :
        log[i].badcap => log[i].status # 200 /\ ~log[i].changed

\* C9: a signup form is refused, and no row stored, when the participant has
\* a signup for the trip already ("Already signed up!") or the trip's signups
\* are closed ("Signups aren't open!"); otherwise one row is stored for them.
C9_SignUpGuards ==
    [][\A p \in Pars, t \in Edited :
         SignUp(p, t) =>
           IF \E s \in signups : s.participant = p /\ s.trip = t
           THEN resp'.err = "Already signed up!" /\ signups' = signups
           ELSE IF ~signups_open[t]
           THEN resp'.err = "Signups aren't open!" /\ signups' = signups
           ELSE /\ resp'.err = ""
                /\ \E s \in signups' : /\ s.participant = p /\ s.trip = t
                                       /\ s.pk = next_pk
                                       /\ signups' \ {s} = signups]_vars

\* C9 witness: a form was refused because the trip's signups are closed
C9_Witness ==
    resp.op = "signup" /\ resp.err = "Signups aren't open!" /\ signups # {}

Promoted(r) == IF r.msg_type = "info" THEN r.bumped ELSE <<>>
Displaced(r) == IF r.msg_type = "warning" THEN r.bumped ELSE <<>>

\* C11: the overflow preview changes nothing, whatever capacity it is asked
\* about (none, not a number, negative): signups, capacities and revisions
\* are after the request what they were before it.
C11_PreviewPure ==
    \A t \in Edited, q \in OverflowInputs :
        LET r == get(signups, maximum_participants, edit_revision, t, q)
        IN  /\ r.signups = signups
            /\ r.cap = maximum_participants
            /\ r.rev = edit_revision

\* C11 witness: a preview has warned of signups that would leave the trip
C11_Witness ==
    resp.op = "overflow" /\ resp.msg_type = "warning" /\ resp.bumped # <<>>

\* C12: asked about a capacity above the trip's, the preview reports the
\* first (proposed - on the trip) signups of the waitlist, in waitlist order,
\* as promoted and nobody as displaced.
C12_PreviewPromotes ==
    \A t \in Edited, n \in 0..MaxSeats :
        n > maximum_participants[t] =>
            LET r == get(signups, maximum_participants, edit_revision, t,
                         [kind |-> "int", val |-> n])
                room == n - Cardinality(OnTrip(signups, t))
            IN  /\ Promoted(r) = PkSeq(Take(Ordered(Waitlisted(signups, t)),
                                            IF room > 0 THEN room ELSE 0))
                /\ Displaced(r) = <<>>

\* C13: asked about a capacity below the trip's, the preview reports the
\* signups on the trip beyond that capacity as displaced and nobody as
\* promoted.
C13_PreviewDisplaces ==
    \A t \in Edited, n \in 0..MaxSeats :
        n < maximum_participants[t] =>
            LET r == get(signups, maximum_participants, edit_revision, t,
                         [kind |-> "int", val |-> n])
            IN  /\ Displaced(r) = PkSeq(Drop(Ordered(OnTrip(signups, t)), n))
                /\ Promoted(r) = <<>>

\* C14: an admin post for a trip leaves the signups, the capacity and the
\* revision of every other trip as they were, also when the posted list
\* names signups of another trip.
C14_OtherTripsUntouched ==
    \A posted \in PostedLists(signups, next_pk) :
      \A t \in Edited, m \in MaxParticipantsInputs :
        LET r == post(signups, maximum_participants, edit_revision,
                      signups_open, t, posted, m)
        IN  \A u \in Trips \ {t} :
              /\ {s \in r.signups : s.trip = u} = {s \in signups : s.trip = u}
              /\ r.cap[u] = maximum_participants[u]
              /\ r.rev[u] = edit_revision[u]

\* C15: two participants who asked for each other are both reciprocally
\* paired or both not; a participant who asked for nobody, or for someone who
\* did not ask back (or has no lottery info), is not reciprocally paired.
C15_PairingSymmetry ==
    /\ \A a, b \in Pars :
          (paired_with[a] = b /\ paired_with[b] = a)
          => (reciprocally_paired(paired_with, a)
              <=> reciprocally_paired(paired_with, b))
    /\ \A a \in Pars :
          (\/ paired_with[a] \in {NoPar, NoInfo}
           \/ paired_with[paired_with[a]] # a)
          => ~reciprocally_paired(paired_with, a)

\* C15 witness: two participants have asked for each other
C15_Witness ==
    /\ resp.op = "pairing"
    /\ \E a, b \in Pars : a # b /\ paired_with[a] = b /\ paired_with[b] = a

\* C16: a lottery-preference post by a participant who is not reciprocally
\* paired changes the order of no signup of another participant and records
\* no notice.
C16_OneSidedSyncsNothing ==
    \A p \in Pars :
      ~reciprocally_paired(paired_with, p) =>
        \A ok \in BOOLEAN, posts \in PreferenceLists(signups, next_pk) :
          LET r == preferences_post(signups, paired_with, today, p, ok, posts)
          IN  /\ r.notices = 0
              /\ \A s \in signups : s.participant # p =>
                    \A s2 \in r.signups : s2.pk = s.pk => s2.order = s.order

\* C16 witness: a post was accepted while somebody had asked for a partner
\* who had not asked back, both having signed up for the lottery trip
C16_Witness ==
    /\ resp.op = "preferences" /\ resp.status = 200
    /\ \A p \in Pars : ~reciprocally_paired(paired_with, p)
    /\ \E p \in Pars : paired_with[p] \in Pars
    /\ \A p \in Pars : \E s \in signups :
          s.participant = p /\ algorithm[s.trip] = "lottery"

\* C17: for a reciprocally paired participant p with partner q,
\* handle_paired_signups gives q's signup the order of p's on every lottery
\* trip yet to come that both signed up for, records one notice for every
\* such trip of p's that q did not sign up for and creates no signup, and
\* leaves q's signups for all other trips as they were.
C17_SyncOrders ==
    \A p \in Pars :
        reciprocally_paired(paired_with, p) =>
          LET q == paired_par(paired_with, p)
              r == handle_paired_signups(signups, paired_with, p, today)
              mine == {s \in signups : /\ s.participant = p
                                       /\ algorithm[s.trip] = "lottery"
                                       /\ trip_date[s.trip] > today}
              shared == {s.trip : s \in {m \in mine :
                             \E o \in signups : o.participant = q
                                                /\ o.trip = m.trip}}
          IN  /\ r.status = 200
              /\ Pks(r.signups) = Pks(signups)
              /\ \A s \in mine : \A o \in r.signups :
                    (o.participant = q /\ o.trip = s.trip) => o.order = s.order
              /\ r.notices = Cardinality({s \in mine : s.trip \notin shared})
              /\ \A o \in signups :
                    (o.participant = q /\ o.trip \notin shared) => o \in r.signups
              /\ \A o \in signups : o.participant \notin {q} => o \in r.signups

\* C17 witness: after a post of one of a reciprocal pair, both have the
\* same posted order on the lottery trip
C17_Witness ==
    /\ resp.op = "preferences" /\ resp.status = 200
    /\ \E a, b \in signups :
          /\ a.participant # b.participant
          /\ reciprocally_paired(paired_with, a.participant)
          /\ paired_par(paired_with, a.participant) = b.participant
          /\ a.trip = b.trip /\ algorithm[a.trip] = "lottery"
          /\ a.order = 1 /\ b.order = 1

\* C18: nobody is paired with themselves; a request to be is refused and
\* leaves the stored pairing as it was.
C18_NoSelfPairing ==
    /\ \A p \in Members : paired_with[p] # p
    /\ \A p \in Pars :
          LET ok == pair_form_is_valid(p, p)
          IN  (IF ok THEN [paired_with EXCEPT ![p] = p] ELSE paired_with)
              = paired_with

\* C18 witness: a pairing form was refused while a pairing was stored
C18_Witness ==
    /\ resp.op = "pairing" /\ resp.status = 200 /\ resp.err # ""
    /\ \E p \in Pars : paired_with[p] \in Members

\* C19: before the Friday before the trip an itinerary is refused with
\* "Form not yet available!" and the stored itineraries stay as they are;
\* from that Friday on a valid itinerary is stored.
C19_ItineraryGate ==
    \A t \in Trips, c \in 1..MaxItinerary :
        LET r == itinerary_form_valid(info, today, t, c)
        IN  IF today < friday_before(trip_date[t])
            THEN r.err = "Form not yet available!" /\ r.info = info
            ELSE r.err = "" /\ r.info = [info EXCEPT ![t] = c]

\* C19 witness: an itinerary was refused as too early, none being stored
C19_Witness ==
    /\ resp.op = "itinerary" /\ resp.err = "Form not yet available!"
    /\ \A t \in Trips : info[t] = NoItinerary

\* the gate of trip t as read on day `now`
Locked(now, t) == ~info_form_available(now, t)
Expired(now, t) == hide_sensitive_info(now, trip_date[t])
GateRank(now, t) ==
    IF Expired(now, t) THEN 2 ELSE IF Locked(now, t) THEN 0 ELSE 1

\* C20: as days pass the gate of a trip goes from Locked to Open to Expired
\* and never back; it is Expired exactly on the days after the trip's date
\* plus 5, never Locked and Expired at once, and no itinerary or signup is
\* deleted when it becomes Expired.
C20_GateMonotone ==
    [][\A t \in Trips :
         /\ GateRank(today', t) >= GateRank(today, t)
         /\ Expired(today', t) <=> today' > trip_date[t] + 5
         /\ ~(Locked(today', t) /\ Expired(today', t))
         /\ (~Expired(today, t) /\ Expired(today', t))
            => (info' = info /\ signups' = signups)]_vars

\* C20 witness: the medical page of a trip with an itinerary was read after
\* the trip's date plus 5 and hid the information
C20_Witness ==
    /\ resp.op = "medical" /\ resp.hide_sensitive_info
    /\ \E t \in Trips : info[t] # NoItinerary /\ Expired(today, t)

C23_ClearPhaseClearsAll ==
    \A posted \in PostedLists(signups, next_pk) : \A t \in Edited :
        LET parsed == to_objects(posted, signups)
            cleared == clear_on_trip(signups, parsed.objs)
        IN  parsed.status = 200 =>
              /\ OnTrip(cleared, t) = {}
              /\ \A s \in Waitlisted(signups, t) : s \in cleared

\* the posted dicts that are more than a removal of somebody without a signup
RECURSIVE Named(_)
Named(posted) ==
    IF posted = <<>> THEN <<>>
    ELSE IF Head(posted).id = NoId /\ Head(posted).deleted THEN Named(Tail(posted))
    ELSE <<Head(posted)>> \o Named(Tail(posted))

\* C24: after an accepted admin post no signup posted as deleted is left, and
\* no signup of the waitlist that the post does not list has been put on a
\* trip; a dict that removes somebody without a signup makes and deletes no
\* signup and changes nothing of what the post does.
C24_RemovedAreGone ==
    \A posted \in PostedLists(signups, next_pk) :
      \A t \in Edited, m \in MaxParticipantsInputs :
        LET r == post(signups, maximum_participants, edit_revision,
                      signups_open, t, posted, m)
            listed == {posted[i].id : i \in DOMAIN posted}
        IN  /\ r.status = 200 =>
                /\ \A i \in DOMAIN posted :
                      (posted[i].id >= 1 /\ posted[i].deleted)
                      => posted[i].id \notin Pks(r.signups)
                /\ \A s \in signups :
                      (~s.on_trip /\ s.pk \notin listed)
                      => /\ s.pk \in Pks(r.signups)
                         /\ ~Row(r.signups, s.pk).on_trip
                /\ Pks(r.signups) \subseteq Pks(signups)
            /\ r = post(signups, maximum_participants, edit_revision,
                        signups_open, t, Named(posted), m)

\* C24 witness: an admin post was accepted, a signup has been deleted, and
\* a trip has room and still somebody on its waitlist
C24_Witness ==
    /\ resp.op = "batch" /\ resp.status = 200
    /\ Cardinality(signups) < next_pk - 1
    /\ \E s \in signups :
          /\ ~s.on_trip
          /\ Cardinality(OnTrip(signups, s.trip)) < maximum_participants[s.trip]

\* C25: an admin post that lists, not as deleted, a known participant who has
\* no signup yet is accepted, and then that participant has a signup for the
\* trip whose order is the position of the dict among those the post keeps
\* or deletes, on the trip or on its waitlist.
C25_NewParticipantPlaced ==
    \A posted \in PostedLists(signups, next_pk) :
      \A t \in Edited, m \in MaxParticipantsInputs :
        LET r == post(signups, maximum_participants, edit_revision,
                      signups_open, t, posted, m)
            named == Named(posted)
        IN  \A i \in DOMAIN named :
              (/\ named[i].id = NoId
               /\ named[i].participant \in Pars
               /\ ~BadCapacity(m)
               /\ \A j \in DOMAIN named : ~BadInstruction(named[j], signups))
              => /\ r.status = 200
                 /\ \E s \in r.signups :
                       /\ s.participant = named[i].participant
                       /\ s.trip = t
                       /\ s.order = i - 1

\* what a waitlist is ordered by: the order when there is one, else the time
\* of creation
OrderKey(s) == IF s.order # NoOrder THEN <<0, s.order>> ELSE <<1, s.pk>>

C27_AdminBypassesClosed ==
    \A t \in Edited : ~signups_open[t] =>
      /\ \A posted \in PostedLists(signups, next_pk) :
          \A m \in MaxParticipantsInputs :
            LET parsed == to_objects(posted, signups)
                r == post(signups, maximum_participants, edit_revision,
                          signups_open, t, posted, m)
            IN  (parsed.status = 200 /\ ~BadCapacity(m)) =>
                  /\ r.status = 200
                  /\ \A i \in DOMAIN parsed.objs :
                       ~parsed.objs[i].remove =>
                         LET s == Row(r.signups, parsed.objs[i].pk)
                         IN  /\ s.order = i - 1
                             /\ \/ s.on_trip
                                \/ Cardinality(OnTrip(r.signups, s.trip))
                                     >= r.cap[s.trip]
      /\ \A p \in Members :
            /\ form_valid_errors(signups, signups_open, p, t) # ""
            /\ trip_post(signups, maximum_participants, signups_open, p, t).signups
               = signups

\* C27 witness: on a trip whose signups are closed an admin post has put a
\* signup on the trip at the first position
C27_Witness ==
    \E t \in Edited :
        /\ ~signups_open[t]
        /\ resp.op = "batch" /\ resp.status = 200
        /\ \E s \in OnTrip(signups, t) : s.order = 0

\* C28: a request to AdminTripSignupsView changes the capacity or the signups
\* only when it is sent by a leader of the trip, its creator or a chair of
\* its activity; a request of anybody else is answered before to_objects
\* reads the posted list and leaves everything as it was.
C28_LeadersOnly ==
    \A actor \in Actors, t \in Edited :
      \A posted \in PostedLists(signups, next_pk) :
        \A m \in MaxParticipantsInputs :
          LET r == dispatch(actor, signups, maximum_participants,
                            edit_revision, signups_open, t, posted, m)
              may == actor.leader \/ actor.creator \/ actor.chair
              same == /\ r.signups = signups
                      /\ r.cap = maximum_participants
                      /\ r.rev = edit_revision
          IN  /\ ~same => may
              /\ ~may => (same /\ ~r.parsed)

\* C28 witness: a request about a trip with signups, sent by somebody of the
\* groups who may not edit the trip, was answered with not_your_trip.html
C28_Witness ==
    /\ resp.op = "dispatch"
    /\ resp.err = "not_your_trip"
    /\ signups # {}

Without(seq, i) == SubSeq(seq, 1, i - 1) \o SubSeq(seq, i + 1, Len(seq))

\* C30: a lottery-preference post by p deletes only signups of p; the order
\* of a signup of somebody else changes only when that is p's reciprocal
\* partner and p has a signup for the same trip; a posted dict with the id
\* of a signup of somebody else changes and deletes nothing: not deleted, the
\* request fails there and that signup is as it was, and deleted, the post
\* does what it does without the dict.
C30_OwnSignupsOnly ==
    \A p \in Pars, ok \in BOOLEAN :
      \A posts \in PreferenceLists(signups, next_pk) :
        LET r == preferences_post(signups, paired_with, today, p, ok, posts)
        IN  /\ \A s \in signups :
                  s.pk \notin Pks(r.signups) => s.participant = p
            /\ \A s \in signups :
                  (/\ s.participant # p
                   /\ s.pk \in Pks(r.signups)
                   /\ Row(r.signups, s.pk).order # s.order)
                  => /\ reciprocally_paired(paired_with, p)
                     /\ s.participant = paired_par(paired_with, p)
                     /\ \E mine \in signups :
                           mine.participant = p /\ mine.trip = s.trip
            /\ \A i \in DOMAIN posts : \A s \in signups :
                  (ok /\ s.pk = posts[i].id /\ s.participant # p)
                  => IF posts[i].deleted
                     THEN r = preferences_post(signups, paired_with, today,
                                               p, ok, Without(posts, i))
                     ELSE r.status = 500 /\ s \in r.signups

\* C30 witness: a valid post that named only a signup of somebody else, to
\* delete it, was answered 200 and that signup is still there
C30_Witness ==
    /\ resp.op = "preferences_others" /\ resp.status = 200
    /\ Cardinality(signups) = next_pk - 1
    /\ \E a, b \in signups : a.participant # b.participant

====
